---- MODULE Spec2Model ----
(***************************************************************************)
(* Model of brother_ql/backends/network.py: the broadcast discovery scan   *)
(* (list_available_devices, cbTimerFun, cbRecvFun) and the network backend *)
(* object (BrotherQLBackendNetwork.__init__, _write, _read, _dispose).     *)
(*                                                                         *)
(* Strings are sequences of one-character strings, so that formatting,     *)
(* prefix stripping and partitioning are computed character by character.  *)
(* Times of the wall clock are whole seconds since the epoch; socket       *)
(* timeouts are in milliseconds.                                           *)
(***************************************************************************)
EXTENDS Bags, FiniteSets, Integers, Sequences, TLC

VARIABLES
    now,             \* wall clock, time(): seconds since the epoch
    startedAt,       \* module global startedAt (line 39)
    foundPrinters,   \* module global foundPrinters (line 41), a bag of strings
    scanPc,          \* position of list_available_devices: idle/wait/tick/return
    localStartedAt,  \* the local name startedAt bound at line 72
    inbox,           \* datagrams that arrived on the broadcast socket, not yet read
    observed,        \* dispatcher: distinct sources it has handed to the callback
    responded,       \* history: endpoints whose response arrived within the window
    late,            \* history: endpoints whose response arrived after the window
    timerFired,      \* history: cbTimerFun raised TimeoutTimerExpired in this scan
    returned,        \* list_available_devices has returned a list
    result,          \* the returned list, as a bag of device dictionaries
    scanRaised,      \* exception that left list_available_devices, or "none"
    coalesced,       \* history: cbRecvFun was called for an address already found
    foundEarlier,    \* history: an earlier call returned a list that was not empty
    scan2Pc,         \* position of a second, concurrent call: idle/run/return
    observed2,       \* dispatcher of the second call: distinct sources it has seen
    returned2,       \* the second call has returned a list
    result2,         \* the list the second call returned
    obj,             \* "none", or "instance" once __init__ has returned
    sock,            \* self.s: "none", "connected" or "closed"
    sockTimeout,     \* timeout of self.s in ms: <<>> is None (blocking), <<t>> is t
    host,            \* self.host
    port,            \* the local port of __init__, the port connected to
    strategy,        \* self.strategy
    specifier,       \* history: the device_specifier given to __init__
    connects,        \* history: calls of self.s.connect made by __init__
    connectTarget,   \* history: the (host, port) of those calls
    connectResult,   \* history: what connect did: "none" (not called), "ok" or an error
    initErr,         \* exception raised by __init__, or "none"
    initCause,       \* its __cause__, or "none"
    writePc,         \* position of _write: "idle" or "sending"
    writeErr,        \* exception raised by the last _write, or "none"
    writeData,       \* the data given to the last _write
    sentLast,        \* history: the bytes sendall put on the socket in the last _write
    sendCalls,       \* history: calls of sendall made by the last _write
    writeRet,        \* what the last _write returned: "none" (not returned) or "None"
    readErr,         \* exception raised by the last _read, or "none"
    readRet,         \* bytes returned by the last _read
    attempts,        \* history: outcomes of the quicksnmp.get calls of the last _read
    readTurn,        \* history: flips at every call of _read
    disposeErr,      \* exception raised by the last _dispose, or "none"
    lastOp           \* what the caller did last: none/init/strategy/write/read/dispose

\* the second call of list_available_devices
otherVars == <<scan2Pc, observed2, returned2, result2>>

scanVars == <<now, startedAt, foundPrinters, scanPc, localStartedAt, inbox,
              observed, responded, late, timerFired, returned, result, scanRaised,
              coalesced, foundEarlier, otherVars>>

\* the history of the last _write
writeHist == <<writeData, sentLast, sendCalls, writeRet>>

connVars == <<obj, sock, sockTimeout, host, port, strategy, specifier, connects,
              connectTarget, connectResult, initErr, initCause, writePc, writeErr, readErr,
              readRet, attempts, disposeErr, lastOp, writeHist, readTurn>>

vars == <<scanVars, connVars>>

-----------------------------------------------------------------------------
(* Bounds of the model *)

MaxTime == 7        \* the wall clock is followed up to this second
NumEndpoints == 11  \* devices on the network segment
MaxInbox == 2       \* datagrams waiting on the broadcast socket

(* Program constants *)

maxWaitForResponses == 5
maxNumberOfResponses == 10

-----------------------------------------------------------------------------
(* Strings *)

DigitChars == <<"0", "1", "2", "3", "4", "5", "6", "7", "8", "9">>

RECURSIVE ToDigits(_)
\* str(n) of a non-negative int, as the f-string of line 158 formats the port
ToDigits(n) ==
    IF n < 10 THEN <<DigitChars[n + 1]>>
    ELSE ToDigits(n \div 10) \o <<DigitChars[(n % 10) + 1]>>

SchemePrefix == <<"t", "c", "p", ":", "/", "/">>

-----------------------------------------------------------------------------
(* The devices of the segment.  Endpoint e answers from address            *)
(* (EndpointIp(e), EndpointPort(e)); two endpoints may share an ip or a    *)
(* port, never both.                                                       *)

Endpoints == 1..NumEndpoints

EndpointIp(e) == <<"h">> \o ToDigits((e + 1) \div 2)

EndpointPort(e) == IF e % 2 = 1 THEN 161 ELSE 9100

transportAddress(e) == <<EndpointIp(e), EndpointPort(e)>>

\* f"{transportAddress[0]}:{transportAddress[1]}"
FormatAddress(addr) == addr[1] \o <<":">> \o ToDigits(addr[2])

-----------------------------------------------------------------------------
(* Discovery *)

\* variant of SetAdd: the element is added without looking for it first
SetAddAlways(fp, x) == fp (+) SetToBag({x})

\* set.add on foundPrinters: an element already present is not added again
SetAdd(fp, x) == IF BagIn(x, fp) THEN fp ELSE fp (+) SetToBag({x})

\* variant of SetClear: the set is left as the previous scan filled it
SetClearKeep(fp) == fp

\* foundPrinters.clear()
SetClear(fp) == EmptyBag

\* cbRecvFun: the new value of foundPrinters
cbRecvFun(fp, addr) == SetAdd(fp, FormatAddress(addr))

\* cbTimerFun: TRUE when it raises TimeoutTimerExpired.  The name startedAt
\* it reads is the module global.
cbTimerFun(timeNow) == timeNow - startedAt > maxWaitForResponses

\* variant of Catches: the try statement has no matching except clause
CatchesNothing(exc) == FALSE

\* the except clause of line 77
Catches(exc) == exc = "TimeoutTimerExpired"

\* variant of BroadcastCap: the cap is off by one
BroadcastCapPlusOne == maxNumberOfResponses + 1

\* the maximum number of responses handed to broadcastSNMPReq at line 76
BroadcastCap == maxNumberOfResponses

Device(printer) == [identifier |-> SchemePrefix \o printer, instance |-> "None"]

PrinterOf(dev) == SubSeq(dev.identifier, Len(SchemePrefix) + 1, Len(dev.identifier))

\* the list comprehension of line 81: one dictionary per element of foundPrinters
DeviceList(fp) ==
    [dev \in {Device(p) : p \in BagToSet(fp)} |-> CopiesIn(PrinterOf(dev), fp)]

\* list_available_devices up to the call of broadcastSNMPReq (lines 68-76).
\* Line 72 binds a local name: the module global startedAt is not assigned.
ScanStart ==
    /\ scanPc = "idle"
    /\ foundPrinters' = SetClear(foundPrinters)
    /\ localStartedAt' = now
    /\ startedAt' = startedAt
    /\ scanPc' = "wait"
    /\ inbox' = {}
    /\ observed' = {}
    /\ responded' = {}
    /\ late' = {}
    /\ timerFired' = FALSE
    /\ returned' = FALSE
    /\ result' = EmptyBag
    /\ scanRaised' = "none"
    /\ coalesced' = FALSE
    /\ foundEarlier' = (foundEarlier \/ (returned /\ result # EmptyBag))
    /\ UNCHANGED <<now, otherVars, connVars>>

\* Environment: the response of endpoint e arrives on the broadcast socket.
\* Endpoints are interchangeable to the scanner, so a device that has not
\* answered yet is taken in the order of the list; one that has answered may
\* answer again at any time.
NextFresh == Cardinality(responded \cup late) + 1

Arrive(e) ==
    /\ scanPc \in {"wait", "tick"}
    /\ Cardinality(inbox) < MaxInbox
    /\ e \notin inbox
    /\ e \in responded \cup late \/ e = NextFresh
    /\ inbox' = inbox \cup {e}
    /\ IF now - localStartedAt <= maxWaitForResponses
          THEN responded' = responded \cup {e} /\ late' = late
          ELSE late' = late \cup {e} /\ responded' = responded
    /\ UNCHANGED <<now, startedAt, foundPrinters, scanPc, localStartedAt,
                   observed, timerFired, returned, result, scanRaised,
                   coalesced, foundEarlier, otherVars,
                   connVars>>

\* Dispatcher loop, receiving half: one datagram is read and handed to
\* cbRecvFun; the loop ends once BroadcastCap distinct responses were seen.
DispatchRecv(e) ==
    /\ scanPc = "wait"
    /\ e \in inbox
    /\ inbox' = inbox \ {e}
    /\ foundPrinters' = cbRecvFun(foundPrinters, transportAddress(e))
    /\ observed' = observed \cup {e}
    /\ scanPc' = IF Cardinality(observed') >= BroadcastCap THEN "return" ELSE "tick"
    /\ coalesced' = (coalesced \/ BagIn(FormatAddress(transportAddress(e)), foundPrinters))
    /\ UNCHANGED <<now, startedAt, localStartedAt, responded, late,
                   timerFired, returned, result, scanRaised, foundEarlier, otherVars,
                   connVars>>

\* Dispatcher loop, receiving half: nothing arrived before the poll timed out.
\* Time passes only while the loop is blocked here (or between scans).
DispatchPollTimeout ==
    /\ scanPc = "wait"
    /\ inbox = {}
    /\ now' \in {now, IF now < MaxTime THEN now + 1 ELSE now}
    /\ scanPc' = "tick"
    /\ UNCHANGED <<startedAt, foundPrinters, localStartedAt, inbox, observed,
                   responded, late, timerFired, returned, result, scanRaised,
                   coalesced, foundEarlier, otherVars,
                   connVars>>

\* Dispatcher loop, timer half: cbTimerFun(time()); the exception it raises
\* leaves broadcastSNMPReq and meets the except clause of line 77.
DispatchTick ==
    /\ scanPc = "tick"
    /\ IF cbTimerFun(now)
          THEN /\ timerFired' = TRUE
               /\ IF Catches("TimeoutTimerExpired")
                     THEN scanPc' = "return" /\ scanRaised' = scanRaised
                     ELSE scanPc' = "idle" /\ scanRaised' = "TimeoutTimerExpired"
          ELSE /\ timerFired' = timerFired
               /\ scanPc' = "wait"
               /\ scanRaised' = scanRaised
    /\ UNCHANGED <<now, startedAt, foundPrinters, localStartedAt, inbox,
                   observed, responded, late, returned, result, coalesced, foundEarlier, otherVars,
                   connVars>>

\* line 81
ScanReturn ==
    /\ scanPc = "return"
    /\ result' = DeviceList(foundPrinters)
    /\ returned' = TRUE
    /\ scanPc' = "idle"
    /\ UNCHANGED <<now, startedAt, foundPrinters, localStartedAt, inbox,
                   observed, responded, late, timerFired, scanRaised, coalesced,
                   foundEarlier, otherVars,
                   connVars>>

\* Time passes between two scans.
IdleTick ==
    /\ scanPc = "idle"
    /\ now < MaxTime
    /\ now' = now + 1
    /\ UNCHANGED <<startedAt, foundPrinters, scanPc, localStartedAt, inbox,
                   observed, responded, late, timerFired, returned, result, scanRaised,
                   coalesced, foundEarlier, otherVars,
                   connVars>>

-----------------------------------------------------------------------------
(* A second call of list_available_devices, made by another thread while   *)
(* the first one runs.  It has its own dispatcher and its own socket; the  *)
(* module globals foundPrinters and startedAt are the same objects.  A     *)
(* datagram is handed to cbRecvFun as it arrives.                          *)

TwoScanEndpoints == 2   \* devices that answer while two calls overlap

\* lines 68-76 in the second call
OtherStart ==
    /\ scan2Pc = "idle"
    /\ foundPrinters' = SetClear(foundPrinters)
    /\ scan2Pc' = "run"
    /\ observed2' = {}
    /\ returned2' = FALSE
    /\ result2' = EmptyBag
    /\ UNCHANGED <<now, startedAt, scanPc, localStartedAt, inbox, observed,
                   responded, late, timerFired, returned, result, scanRaised,
                   coalesced, foundEarlier, connVars>>

\* the dispatcher of the second call receives the response of endpoint e
OtherRecv(e) ==
    /\ scan2Pc = "run"
    /\ e \in observed2 \/ e = Cardinality(observed2) + 1
    /\ foundPrinters' = cbRecvFun(foundPrinters, transportAddress(e))
    /\ observed2' = observed2 \cup {e}
    /\ scan2Pc' = IF Cardinality(observed2') >= BroadcastCap THEN "return" ELSE "run"
    /\ UNCHANGED <<now, startedAt, scanPc, localStartedAt, inbox, observed,
                   responded, late, timerFired, returned, result, scanRaised,
                   coalesced, foundEarlier, returned2, result2, connVars>>

\* the dispatcher of the second call runs cbTimerFun, which raises
OtherTick ==
    /\ scan2Pc = "run"
    /\ cbTimerFun(now)
    /\ Catches("TimeoutTimerExpired")
    /\ scan2Pc' = "return"
    /\ UNCHANGED <<now, startedAt, foundPrinters, scanPc, localStartedAt, inbox,
                   observed, responded, late, timerFired, returned, result,
                   scanRaised, coalesced, foundEarlier, observed2, returned2,
                   result2, connVars>>

\* line 81 in the second call
OtherReturn ==
    /\ scan2Pc = "return"
    /\ result2' = DeviceList(foundPrinters)
    /\ returned2' = TRUE
    /\ scan2Pc' = "idle"
    /\ UNCHANGED <<now, startedAt, foundPrinters, scanPc, localStartedAt, inbox,
                   observed, responded, late, timerFired, returned, result,
                   scanRaised, coalesced, foundEarlier, observed2, connVars>>

-----------------------------------------------------------------------------
(* The backend object *)

MaxLen == 4         \* longest specifier text after the scheme that is tried
MaxGets == 3        \* calls of quicksnmp.get in one _read whose outcome is drawn

(* Program constants *)

DefaultPort == 9100
ReadTimeoutMs == 10       \* self.read_timeout = 0.01 s
WriteTimeoutMs == 10000   \* settimeout(10)

IdAlphabet == {"h", ":", "0", "9"}

StartsWith(s, p) == Len(s) >= Len(p) /\ SubSeq(s, 1, Len(p)) = p

\* variant of StripScheme: the slice starts one character early
StripSchemeShort(s) ==
    IF StartsWith(s, SchemePrefix) THEN SubSeq(s, 6, Len(s)) ELSE s

\* lines 98-99: device_specifier[6:] when it starts with 'tcp://'
StripScheme(s) ==
    IF StartsWith(s, SchemePrefix) THEN SubSeq(s, 7, Len(s)) ELSE s

\* index of the first occurrence of c in s, 0 when there is none
FirstIndex(s, c) ==
    IF \E i \in 1..Len(s) : s[i] = c
       THEN CHOOSE i \in 1..Len(s) : s[i] = c /\ \A j \in 1..(i - 1) : s[j] # c
       ELSE 0

\* index of the last occurrence of c in s, 0 when there is none
LastIndex(s, c) ==
    IF \E i \in 1..Len(s) : s[i] = c
       THEN CHOOSE i \in 1..Len(s) : s[i] = c /\ \A j \in (i + 1)..Len(s) : s[j] # c
       ELSE 0

\* variant of Partition: the string is split at the last occurrence of c
PartitionLast(s, c) ==
    LET i == LastIndex(s, c)
    IN  IF i = 0 THEN <<s, <<>>, <<>>>>
        ELSE <<SubSeq(s, 1, i - 1), <<c>>, SubSeq(s, i + 1, Len(s))>>

\* str.partition(c): <<head, separator, tail>>
Partition(s, c) ==
    LET i == FirstIndex(s, c)
    IN  IF i = 0 THEN <<s, <<>>, <<>>>>
        ELSE <<SubSeq(s, 1, i - 1), <<c>>, SubSeq(s, i + 1, Len(s))>>

IsDecimal(s) ==
    /\ s # <<>>
    /\ \A i \in 1..Len(s) : \E d \in 1..10 : DigitChars[d] = s[i]

DigitValue(c) == (CHOOSE d \in 1..10 : DigitChars[d] = c) - 1

RECURSIVE ParseInt(_)
\* int(s) of a string of decimal digits
ParseInt(s) ==
    IF Len(s) = 1 THEN DigitValue(s[1])
    ELSE ParseInt(SubSeq(s, 1, Len(s) - 1)) * 10 + DigitValue(s[Len(s)])

\* variant of ChoosePort: the port of the specifier is ignored
ChoosePortDefault(portText) == DefaultPort

\* lines 101-104: the port connected to, given the text after the separator
ChoosePort(portText) == IF portText # <<>> THEN ParseInt(portText) ELSE DefaultPort

\* variant of WrapConnectError: the ValueError is raised without "from e"
WrapConnectErrorBare(e) == [err |-> "ValueError", cause |-> "none"]

\* lines 109-110: raise ValueError(...) from e
WrapConnectError(e) == [err |-> "ValueError", cause |-> e]

\* lines 111-114
InitialTimeout(strat) ==
    IF strat \in {"socket_timeout", "try_twice"} THEN <<ReadTimeoutMs>> ELSE <<0>>

Texts == UNION {[1..n -> IdAlphabet] : n \in 0..MaxLen}

\* what __init__ may be given: a string, with or without the scheme, or
\* something that is not a string
Specifiers ==
    {[kind |-> "str", text |-> t] : t \in Texts}
    \cup {[kind |-> "str", text |-> SchemePrefix \o t] : t \in Texts}
    \cup {[kind |-> "handle", text |-> <<>>]}

\* the specifiers used for a connection that is then worked with
LiveSpecifiers ==
    {[kind |-> "str", text |-> SchemePrefix \o FormatAddress(transportAddress(1))],
     [kind |-> "str", text |-> EndpointIp(1)]}

ConnectOutcomes == {"ok", "ConnectionRefusedError", "OSError", "gaierror"}

\* BrotherQLBackendNetwork.__init__ (lines 88-116); outcome is what
\* self.s.connect does.
Construct(spec, outcome) ==
    /\ obj = "none"
    /\ lastOp = "none"
    /\ specifier' = spec
    /\ lastOp' = "init"
    /\ strategy' = "socket_timeout"
    /\ UNCHANGED <<writePc, writeErr, readErr, readRet, attempts, disposeErr, writeHist, readTurn,
                   scanVars>>
    /\ IF spec.kind # "str"
          THEN /\ initErr' = "NotImplementedError"
               /\ initCause' = "none"
               /\ UNCHANGED <<obj, sock, sockTimeout, host, port, connects,
                              connectTarget, connectResult>>
          ELSE LET parts == Partition(StripScheme(spec.text), ":")
               IN  /\ host' = parts[1]
                   /\ IF parts[3] # <<>> /\ ~IsDecimal(parts[3])
                         THEN \* int(port) raises ValueError
                              /\ initErr' = "ValueError"
                              /\ initCause' = "none"
                              /\ UNCHANGED <<obj, sock, sockTimeout, port, connects,
                                             connectTarget, connectResult>>
                         ELSE /\ port' = ChoosePort(parts[3])
                              /\ connects' = connects + 1
                              /\ connectTarget' = <<host', port'>>
                              /\ connectResult' = outcome
                              /\ IF outcome = "ok"
                                    THEN /\ obj' = "instance"
                                         /\ sock' = "connected"
                                         /\ sockTimeout' = InitialTimeout(strategy')
                                         /\ initErr' = "none"
                                         /\ initCause' = "none"
                                    ELSE /\ initErr' = WrapConnectError(outcome).err
                                         /\ initCause' = WrapConnectError(outcome).cause
                                         /\ UNCHANGED <<obj, sock, sockTimeout>>

Strategies == {"socket_timeout", "try_twice", "select"}

\* the caller chooses one of the strategies named at line 95
SetStrategy(s) ==
    /\ obj = "instance"
    /\ s # strategy
    /\ strategy' = s
    /\ lastOp' = "strategy"
    /\ UNCHANGED <<obj, sock, sockTimeout, host, port, specifier, connects,
                   connectTarget, connectResult, initErr, initCause, writePc,
                   writeErr, readErr, readRet, attempts, disposeErr, writeHist, readTurn,
                   scanVars>>

\* the data a caller writes
WriteDatas == {<<27, 64>>, <<0>>}

\* _write, line 119: settimeout(10); on a closed socket it raises OSError
WriteBegin(data) ==
    /\ obj = "instance"
    /\ writePc = "idle"
    /\ writeData' = data
    /\ sentLast' = <<>>
    /\ sendCalls' = 0
    /\ writeRet' = "none"
    /\ lastOp' = "write"
    /\ IF sock = "closed"
          THEN /\ writeErr' = "OSError"
               /\ UNCHANGED <<sockTimeout, writePc>>
          ELSE /\ sockTimeout' = <<WriteTimeoutMs>>
               /\ writePc' = "sending"
               /\ writeErr' = "none"
    /\ UNCHANGED <<obj, sock, host, port, strategy, specifier, connects,
                   connectTarget, connectResult, initErr, initCause, readErr,
                   readRet, attempts, disposeErr, readTurn, scanVars>>

SendOutcomes == {"ok", "timeout", "BrokenPipeError"}

\* variant of TimeoutAfterSend: the write timeout is left in place
TimeoutAfterSendStale == <<WriteTimeoutMs>>

\* line 121: settimeout(self.read_timeout)
TimeoutAfterSend == <<ReadTimeoutMs>>

\* _write, lines 120-121: sendall(data), then settimeout(self.read_timeout);
\* a sendall that fails has put a part of the data on the socket and its
\* exception leaves _write before line 121
WriteSend(outcome) ==
    /\ writePc = "sending"
    /\ writePc' = "idle"
    /\ lastOp' = "write"
    /\ sendCalls' = sendCalls + 1
    /\ IF outcome = "ok"
          THEN /\ sentLast' = writeData
               /\ sockTimeout' = TimeoutAfterSend
               /\ writeErr' = "none"
               /\ writeRet' = "None"
          ELSE /\ \E n \in 0..(Len(writeData) - 1) : sentLast' = SubSeq(writeData, 1, n)
               /\ sockTimeout' = sockTimeout
               /\ writeErr' = outcome
               /\ writeRet' = "none"
    /\ UNCHANGED <<obj, sock, host, port, strategy, specifier, connects,
                   connectTarget, connectResult, initErr, initCause, readErr,
                   readRet, attempts, disposeErr, writeData, readTurn, scanVars>>

\* variant of Tries: try_twice makes three attempts
TriesThrice(strat) == IF strat = "try_twice" THEN 3 ELSE 1

\* variant of Tries: every strategy makes two attempts
TriesAlwaysTwo(strat) == 2

\* lines 125-128
Tries(strat) == IF strat = "try_twice" THEN 2 ELSE 1

StatusBytes == {<<128, 32>>, <<0>>}

\* what one call of quicksnmp.get does: it returns the status, raises
\* socket.timeout or raises another error
GetOutcomes ==
    {[kind |-> "ok", bytes |-> b] : b \in StatusBytes}
    \cup {[kind |-> "timeout", bytes |-> <<>>], [kind |-> "OSError", bytes |-> <<>>]}

RECURSIVE ReadLoopSwallow(_, _, _, _)
\* variant of ReadLoop: every exception of quicksnmp.get is passed over
ReadLoopSwallow(i, tries, outs, log) ==
    IF i > tries THEN [err |-> "none", ret |-> <<>>, log |-> log]
    ELSE IF outs[i].kind = "ok"
            THEN [err |-> "none", ret |-> outs[i].bytes, log |-> Append(log, outs[i])]
    ELSE ReadLoopSwallow(i + 1, tries, outs, Append(log, outs[i]))

RECURSIVE ReadLoop(_, _, _, _)
\* the for loop of lines 129-138, from iteration i on; outs[i] is what the
\* i-th call of quicksnmp.get does, log the calls made so far
ReadLoop(i, tries, outs, log) ==
    IF i > tries THEN [err |-> "none", ret |-> <<>>, log |-> log]
    ELSE IF outs[i].kind = "ok"
            THEN [err |-> "none", ret |-> outs[i].bytes, log |-> Append(log, outs[i])]
    ELSE IF outs[i].kind = "timeout"
            THEN ReadLoop(i + 1, tries, outs, Append(log, outs[i]))
    ELSE [err |-> outs[i].kind, ret |-> <<>>, log |-> Append(log, outs[i])]

\* variant of ReadCall: an unknown strategy gives the empty byte sequence
ReadCallSilent(strat, outs) ==
    IF strat \in {"socket_timeout", "try_twice"}
       THEN ReadLoop(1, Tries(strat), outs, <<>>)
       ELSE [err |-> "none", ret |-> <<>>, log |-> <<>>]

\* _read (lines 123-140)
ReadCall(strat, outs) ==
    IF strat \in {"socket_timeout", "try_twice"}
       THEN ReadLoop(1, Tries(strat), outs, <<>>)
       ELSE [err |-> "NotImplementedError", ret |-> <<>>, log |-> <<>>]

\* variant of Read: the read sets the timeout of the stream socket first
ReadOnSocket(outs) ==
    /\ obj = "instance"
    /\ LET r == ReadCall(strategy, outs)
       IN  /\ readErr' = r.err
           /\ readRet' = r.ret
           /\ attempts' = r.log
    /\ lastOp' = "read"
    /\ readTurn' = 1 - readTurn
    /\ sockTimeout' = <<ReadTimeoutMs>>
    /\ UNCHANGED <<obj, sock, host, port, strategy, specifier,
                   connects, connectTarget, connectResult, initErr, initCause,
                   writePc, writeErr, disposeErr, writeHist, scanVars>>

\* _read as an operation on the object: nothing of self.s is used
Read(outs) ==
    /\ obj = "instance"
    /\ LET r == ReadCall(strategy, outs)
       IN  /\ readErr' = r.err
           /\ readRet' = r.ret
           /\ attempts' = r.log
    /\ lastOp' = "read"
    /\ readTurn' = 1 - readTurn
    /\ UNCHANGED <<obj, sock, sockTimeout, host, port, strategy, specifier,
                   connects, connectTarget, connectResult, initErr, initCause,
                   writePc, writeErr, disposeErr, writeHist, scanVars>>

ShutdownOutcomes == {"ok", "OSError"}

\* _dispose (lines 142-144): shutdown, then close; when shutdown raises,
\* close is not reached
Dispose(outcome) ==
    /\ obj = "instance"
    /\ writePc = "idle"
    /\ lastOp' = "dispose"
    /\ IF sock = "closed" \/ outcome # "ok"
          THEN disposeErr' = "OSError" /\ sock' = sock
          ELSE disposeErr' = "none" /\ sock' = "closed"
    /\ UNCHANGED <<obj, sockTimeout, host, port, strategy, specifier, connects,
                   connectTarget, connectResult, initErr, initCause, writePc, writeErr, readErr,
                   readRet, attempts, writeHist, readTurn,
                   scanVars>>

-----------------------------------------------------------------------------
(* Specifications *)

InitScan ==
    /\ now \in 0..MaxTime
    /\ startedAt = 0
    /\ foundPrinters = EmptyBag
    /\ scanPc = "idle"
    /\ localStartedAt = 0
    /\ inbox = {}
    /\ observed = {}
    /\ responded = {}
    /\ late = {}
    /\ timerFired = FALSE
    /\ returned = FALSE
    /\ result = EmptyBag
    /\ scanRaised = "none"
    /\ coalesced = FALSE
    /\ foundEarlier = FALSE
    /\ scan2Pc = "idle"
    /\ observed2 = {}
    /\ returned2 = FALSE
    /\ result2 = EmptyBag

InitConn ==
    /\ obj = "none"
    /\ sock = "none"
    /\ sockTimeout = <<>>
    /\ host = <<>>
    /\ port = 0
    /\ strategy = "socket_timeout"
    /\ specifier = [kind |-> "str", text |-> <<>>]
    /\ connects = 0
    /\ connectTarget = <<>>
    /\ connectResult = "none"
    /\ initErr = "none"
    /\ initCause = "none"
    /\ writePc = "idle"
    /\ writeErr = "none"
    /\ readErr = "none"
    /\ readRet = <<>>
    /\ attempts = <<>>
    /\ disposeErr = "none"
    /\ lastOp = "none"
    /\ writeData = <<>>
    /\ sentLast = <<>>
    /\ sendCalls = 0
    /\ writeRet = "none"
    /\ readTurn = 0

Init == InitScan /\ InitConn

\* for the backend object the time of day plays no part
InitBackend == Init /\ now = 0

NextScan ==
    \/ ScanStart
    \/ \E e \in Endpoints : Arrive(e)
    \/ \E e \in Endpoints : DispatchRecv(e)
    \/ DispatchPollTimeout
    \/ DispatchTick
    \/ ScanReturn
    \/ IdleTick

\* the discovery scan
SpecScan == Init /\ [][NextScan]_vars

\* Environment: every device answers one broadcast at most once.
ArriveOnce(e) == e \notin responded \cup late /\ Arrive(e)

\* the loop of the dispatcher goes on with a poll in which a second passes
PollTimeoutSecond == DispatchPollTimeout /\ now' = now + 1

NextScanLive ==
    \/ ScanStart
    \/ \E e \in Endpoints : ArriveOnce(e)
    \/ \E e \in Endpoints : DispatchRecv(e)
    \/ DispatchPollTimeout
    \/ DispatchTick
    \/ ScanReturn
    \/ IdleTick

\* The thread that called list_available_devices keeps running, and the
\* wall clock does not stand still while the loop polls again and again.
ScanFairness ==
    /\ WF_vars(\E e \in Endpoints : DispatchRecv(e))
    /\ WF_vars(DispatchPollTimeout)
    /\ SF_vars(PollTimeoutSecond)
    /\ WF_vars(DispatchTick)
    /\ WF_vars(ScanReturn)

\* the discovery scan of a running thread
SpecScanLive == Init /\ [][NextScanLive]_vars /\ ScanFairness

NextTwoScans ==
    \/ ScanStart
    \/ \E e \in 1..TwoScanEndpoints : Arrive(e)
    \/ \E e \in 1..TwoScanEndpoints : DispatchRecv(e)
    \/ DispatchPollTimeout
    \/ DispatchTick
    \/ ScanReturn
    \/ IdleTick
    \/ OtherStart
    \/ \E e \in 1..TwoScanEndpoints : OtherRecv(e)
    \/ OtherTick
    \/ OtherReturn

\* two calls of list_available_devices from two threads
SpecTwoScans == Init /\ [][NextTwoScans]_vars

\* the identifiers of a returned list are given to the constructor
ConstructFound(outcome) ==
    /\ scanPc = "idle"
    /\ returned
    /\ \E dev \in BagToSet(result) :
          Construct([kind |-> "str", text |-> dev.identifier], outcome)

NextRoundTrip ==
    \/ lastOp = "none" /\ NextScan
    \/ \E o \in ConnectOutcomes : ConstructFound(o)

\* discovery, then construction of a backend from a discovered identifier
SpecRoundTrip == Init /\ [][NextRoundTrip]_vars

NextInit == \E spec \in Specifiers, o \in ConnectOutcomes : Construct(spec, o)

\* construction of a backend object from any specifier
SpecInit == InitBackend /\ [][NextInit]_vars

NextConn ==
    \/ \E spec \in LiveSpecifiers, o \in ConnectOutcomes : Construct(spec, o)
    \/ \E s \in Strategies : SetStrategy(s)
    \/ \E d \in WriteDatas : WriteBegin(d)
    \/ \E o \in SendOutcomes : WriteSend(o)
    \/ \E outs \in [1..MaxGets -> GetOutcomes] : Read(outs)
    \/ \E o \in ShutdownOutcomes : Dispose(o)

\* the life of one backend object
SpecConn == InitBackend /\ [][NextConn]_vars

-----------------------------------------------------------------------------
(* Properties of the discovery scan *)

\* the list with one device per endpoint of the set es
DevicesOf(es) == SetToBag({Device(FormatAddress(transportAddress(e))) : e \in es})

\* C1: when the endpoints that answered within 5 seconds of the start of the
\* scan are at most 10 and no endpoint answered later, the returned list has
\* exactly one device per such endpoint, with identifier 'tcp://ip:port' and
\* instance None.
C1_ReturnsAllResponders ==
    (returned /\ late = {} /\ Cardinality(responded) <= maxNumberOfResponses)
        => result = DevicesOf(responded)

\* C2: when the timer callback ends a scan, more than 5 seconds have passed
\* since the time recorded at the start of that scan.
C2_TimerWaitsForWindow ==
    (scanPc = "return" /\ timerFired) => now - localStartedAt > maxWaitForResponses

\* C4: a scan in which no endpoint answered within the window returns the
\* empty list and lets no exception out.
C4_NoResponderEmptyList ==
    (scanPc = "idle" /\ responded = {})
        => scanRaised = "none" /\ (returned => result = EmptyBag)

C4_Witness ==
    /\ returned
    /\ responded = {}
    /\ timerFired
    /\ result = EmptyBag
    /\ scanRaised = "none"

\* C5: the dispatch loop is left as soon as 10 distinct responses have been
\* observed, and the returned list never has more than 10 entries.
C5_CapEndsScan ==
    /\ Cardinality(observed) >= maxNumberOfResponses => scanPc \notin {"wait", "tick"}
    /\ returned => BagCardinality(result) <= maxNumberOfResponses

C5_Witness ==
    /\ returned
    /\ ~timerFired
    /\ Cardinality(responded) > maxNumberOfResponses
    /\ BagCardinality(result) = maxNumberOfResponses

\* C6: foundPrinters never holds a 'host:port' string more than once, and the
\* returned list has exactly one device per endpoint whose response was
\* handed to cbRecvFun, however often that endpoint answered.
C6_Coalesced ==
    /\ \A p \in BagToSet(foundPrinters) : CopiesIn(p, foundPrinters) = 1
    /\ returned => result = DevicesOf(observed)

C6_Witness ==
    /\ returned
    /\ coalesced
    /\ Cardinality(observed) >= 2
    /\ result = DevicesOf(observed)

-----------------------------------------------------------------------------
(* Properties of the backend object *)

\* C3: after _dispose has closed the socket, a _read or a _write that is the
\* last call made has failed with an error.
C3_UseAfterDisposeFails ==
    /\ (sock = "closed" /\ lastOp = "read") => readErr # "none"
    /\ (sock = "closed" /\ lastOp = "write") => writeErr # "none"

\* C7: under try_twice a _read makes at most two status queries; a first
\* query that succeeds is the only one and its bytes are returned; after a
\* first timeout a second query is made, whose bytes are returned if it
\* succeeds; two timeouts give the empty byte sequence and no error.
C7_TryTwice ==
    (lastOp = "read" /\ strategy = "try_twice") =>
        /\ Len(attempts) \in {1, 2}
        /\ attempts[1].kind = "ok" =>
              Len(attempts) = 1 /\ readErr = "none" /\ readRet = attempts[1].bytes
        /\ attempts[1].kind = "timeout" =>
              /\ Len(attempts) = 2
              /\ attempts[2].kind = "ok" =>
                    readErr = "none" /\ readRet = attempts[2].bytes
              /\ attempts[2].kind = "timeout" =>
                    readErr = "none" /\ readRet = <<>>

C7_Witness ==
    /\ lastOp = "read"
    /\ strategy = "try_twice"
    /\ Len(attempts) = 2
    /\ attempts[1].kind = "timeout"
    /\ attempts[2].kind = "ok"
    /\ readRet = attempts[2].bytes
    /\ readRet # <<>>

\* C8: under socket_timeout a _read makes exactly one status query; when it
\* succeeds its bytes are returned, when it times out the empty byte
\* sequence is returned and no exception is raised.
C8_SingleTimeout ==
    (lastOp = "read" /\ strategy = "socket_timeout") =>
        /\ Len(attempts) = 1
        /\ attempts[1].kind = "ok" => readErr = "none" /\ readRet = attempts[1].bytes
        /\ attempts[1].kind = "timeout" => readErr = "none" /\ readRet = <<>>

C8_Witness ==
    /\ lastOp = "read"
    /\ strategy = "socket_timeout"
    /\ Len(attempts) = 1
    /\ attempts[1].kind = "timeout"
    /\ readErr = "none"
    /\ readRet = <<>>

\* C9 as claimed: a failed connect makes __init__ fail with a ConnectionError
\* whose cause is the error of connect, after one connect attempt and
\* without leaving an instance.
C9_RaisesConnectionError ==
    connectResult \notin {"none", "ok"} =>
        /\ initErr = "ConnectionError"
        /\ initCause = connectResult
        /\ connects = 1
        /\ obj = "none"

\* C9 as amended: a failed connect makes __init__ fail with a ValueError
\* whose cause is the error of connect, after one connect attempt and
\* without leaving an instance or a connected socket.
C9_RaisesValueError ==
    connectResult \notin {"none", "ok"} =>
        /\ initErr = "ValueError"
        /\ initCause = connectResult
        /\ connects = 1
        /\ obj = "none"
        /\ sock # "connected"

C9_Witness ==
    /\ lastOp = "init"
    /\ connectResult = "gaierror"
    /\ initErr = "ValueError"
    /\ initCause = "gaierror"
    /\ connects = 1
    /\ obj = "none"

\* a host name: a non-empty text without ':'
IsHostText(t) == t # <<>> /\ \A i \in 1..Len(t) : t[i] # ":"

\* a decimal port as it is written: digits, no leading zero
IsPortText(t) ==
    /\ t # <<>>
    /\ \A i \in 1..Len(t) : t[i] \in {DigitChars[d] : d \in 1..10}
    /\ Len(t) > 1 => t[1] # "0"

\* C10: 'tcp://<host>:<port>' is connected to <host> at the port written in
\* decimal, 'tcp://<host>' is connected to <host> at port 9100, and a
\* specifier that names another port is not connected to at 9100.
C10_IdentifierParsing ==
    (/\ lastOp = "init"
     /\ specifier.kind = "str"
     /\ Len(specifier.text) > 6
     /\ SubSeq(specifier.text, 1, 6) = <<"t", "c", "p", ":", "/", "/">>) =>
        LET body == SubSeq(specifier.text, 7, Len(specifier.text))
        IN  /\ IsHostText(body) =>
                  connects = 1 /\ connectTarget = <<body, 9100>>
            /\ \A k \in 1..Len(body) :
                  LET h == SubSeq(body, 1, k - 1)
                      p == SubSeq(body, k + 1, Len(body))
                  IN  (body[k] = ":" /\ IsHostText(h) /\ IsPortText(p)) =>
                          /\ connects = 1
                          /\ connectTarget[1] = h
                          /\ ToDigits(connectTarget[2]) = p
                          /\ p # ToDigits(9100) => connectTarget[2] # 9100

C10_Witness ==
    /\ lastOp = "init"
    /\ specifier.text = SchemePrefix \o <<"h", ":", "9", "0">>
    /\ connectTarget = <<(<<"h">>), 90>>
    /\ connectResult = "ok"
    /\ host = <<"h">>
    /\ port = 90

\* C11: while _write is sending, the timeout of the socket is 10 seconds and
\* it was set before any byte went out; after a _write that returned, all
\* bytes of the data were sent by one sendall, the timeout of the socket is
\* the read timeout again and the value returned is None.
C11_WriteOrder ==
    /\ writePc = "sending" =>
          sockTimeout = <<WriteTimeoutMs>> /\ sentLast = <<>> /\ sendCalls = 0
    /\ (lastOp = "write" /\ writePc = "idle" /\ writeErr = "none") =>
          /\ sentLast = writeData
          /\ sendCalls = 1
          /\ sockTimeout = <<ReadTimeoutMs>>
          /\ writeRet = "None"

C11_Witness ==
    /\ lastOp = "write"
    /\ writePc = "idle"
    /\ writeErr = "none"
    /\ writeData = <<27, 64>>
    /\ sentLast = <<27, 64>>
    /\ sockTimeout = <<ReadTimeoutMs>>
    /\ writeRet = "None"

\* C12: a _read under a strategy other than socket_timeout and try_twice
\* raises NotImplementedError, makes no status query and returns nothing.
C12_UnknownStrategy ==
    (lastOp = "read" /\ strategy \notin {"socket_timeout", "try_twice"}) =>
        readErr = "NotImplementedError" /\ attempts = <<>> /\ readRet = <<>>

C12_Witness ==
    /\ lastOp = "read"
    /\ strategy = "select"
    /\ readErr = "NotImplementedError"
    /\ attempts = <<>>

\* C14: whenever no _write is executing on a connected socket, the timeout of
\* the socket is not the 10 seconds of _write, and under socket_timeout and
\* try_twice it is the read timeout applied at construction.
C14_WriteTimeoutTemporary ==
    (obj = "instance" /\ sock = "connected" /\ writePc = "idle") =>
        /\ sockTimeout # <<WriteTimeoutMs>>
        /\ strategy \in {"socket_timeout", "try_twice"} => sockTimeout = <<ReadTimeoutMs>>

\* C17: a _write that did not send all its data has raised, after a single
\* sendall; an error of a status query that is not a timeout is the error
\* _read raises and no query follows it; an empty result without error comes
\* from timeouts only.
C17_ErrorsSurface ==
    /\ (lastOp = "write" /\ writePc = "idle" /\ sentLast # writeData) =>
          writeErr # "none" /\ writeRet = "none" /\ sendCalls <= 1
    /\ lastOp = "read" =>
          /\ \A i \in 1..Len(attempts) :
                attempts[i].kind \notin {"ok", "timeout"} =>
                    i = Len(attempts) /\ readErr = attempts[i].kind
          /\ (readErr = "none" /\ readRet = <<>>) =>
                \A i \in 1..Len(attempts) : attempts[i].kind = "timeout"

C17_Witness ==
    /\ lastOp = "read"
    /\ strategy = "try_twice"
    /\ Len(attempts) = 1
    /\ attempts[1].kind = "OSError"
    /\ readErr = "OSError"

\* C19: a call of _read changes neither the timeout nor the state of the
\* stream socket nor the position of a _write in progress, and while a _write
\* is sending both the _read and the rest of the _write can proceed.
C19_ReadLeavesSocket ==
    /\ [](writePc = "sending" =>
            /\ ENABLED (\E outs \in [1..MaxGets -> GetOutcomes] : Read(outs))
            /\ ENABLED (\E o \in SendOutcomes : WriteSend(o)))
    /\ [][readTurn' # readTurn =>
            sockTimeout' = sockTimeout /\ sock' = sock /\ writePc' = writePc]_vars

C19_Witness ==
    /\ writePc = "sending"
    /\ lastOp = "read"
    /\ sockTimeout = <<WriteTimeoutMs>>
    /\ readErr = "none"
    /\ readRet # <<>>

\* C15: a call of list_available_devices that has begun ends by returning a
\* list, and TimeoutTimerExpired never leaves list_available_devices.
C15_ScanTerminates ==
    /\ [](scanRaised = "none")
    /\ (scanPc \in {"wait", "tick", "return"}) ~> (scanPc = "idle" /\ returned)

C15_Witness ==
    /\ scanPc = "idle"
    /\ returned
    /\ timerFired
    /\ observed # {}
    /\ scanRaised = "none"

\* C16: the list a call returns holds devices of endpoints that answered
\* during that call only, also when an earlier call found other endpoints.
C16_OnlyThisRun ==
    returned =>
        \A dev \in BagToSet(result) :
            \E e \in responded \cup late :
                dev = Device(EndpointIp(e) \o <<":">> \o ToDigits(EndpointPort(e)))

C16_Witness ==
    /\ foundEarlier
    /\ returned
    /\ responded \cup late = {}
    /\ result = EmptyBag

-----------------------------------------------------------------------------
(* Properties of two concurrent scans *)

\* C13: whatever the interleaving of two calls, the list each call returns
\* holds exactly the endpoints whose responses its own dispatcher received.
C13_ScansIsolated ==
    /\ returned => result = DevicesOf(observed)
    /\ returned2 => result2 = DevicesOf(observed2)

-----------------------------------------------------------------------------
(* Properties of the parsing of specifiers *)

\* the specifier without the scheme 'tcp://'
BodyOf(text) ==
    IF Len(text) >= 6 /\ SubSeq(text, 1, 6) = <<"t", "c", "p", ":", "/", "/">>
       THEN SubSeq(text, 7, Len(text))
       ELSE text

ColonsOf(b) == {k \in 1..Len(b) : b[k] = ":"}

\* what a split of the body b at its k-th character means for the object:
\* the host is the text before it; a port written after it is the port
\* connected to
SplitAt(b, k) ==
    /\ host = SubSeq(b, 1, k - 1)
    /\ IsPortText(SubSeq(b, k + 1, Len(b))) =>
          /\ connects = 1
          /\ connectTarget[1] = SubSeq(b, 1, k - 1)
          /\ ToDigits(connectTarget[2]) = SubSeq(b, k + 1, Len(b))

\* C18 as claimed: host and port are split at the last ':' of the specifier
\* without its scheme, and the port is 9100 when there is no ':'.
C18_SplitsAtLastColon ==
    (lastOp = "init" /\ specifier.kind = "str") =>
        LET b == BodyOf(specifier.text)
        IN  IF ColonsOf(b) = {}
               THEN host = b /\ connectTarget = <<b, 9100>>
               ELSE SplitAt(b, CHOOSE k \in ColonsOf(b) : \A j \in ColonsOf(b) : j <= k)

\* C18 as amended: host and port are split at the first ':'; the port is 9100
\* when there is no ':' or nothing follows the first ':', and a text after
\* the first ':' that is not a decimal number makes __init__ raise ValueError
\* before any connect.
C18_SplitsAtFirstColon ==
    (lastOp = "init" /\ specifier.kind = "str") =>
        LET b == BodyOf(specifier.text)
        IN  IF ColonsOf(b) = {}
               THEN host = b /\ connectTarget = <<b, 9100>>
               ELSE LET k == CHOOSE i \in ColonsOf(b) : \A j \in ColonsOf(b) : i <= j
                        after == SubSeq(b, k + 1, Len(b))
                    IN  /\ SplitAt(b, k)
                        /\ after = <<>> => connectTarget = <<SubSeq(b, 1, k - 1), 9100>>
                        /\ (\E i \in 1..Len(after) :
                               after[i] \notin {DigitChars[d] : d \in 1..10}) =>
                              initErr = "ValueError" /\ initCause = "none" /\ connects = 0

C18_Witness ==
    /\ lastOp = "init"
    /\ specifier.text = SchemePrefix \o <<"h", ":", "9", ":">>
    /\ host = <<"h">>
    /\ initErr = "ValueError"
    /\ connects = 0

\* C20: a backend constructed from an identifier of a returned list connects
\* to the ip and the port of the endpoint cbRecvFun recorded under it.
C20_RoundTrip ==
    lastOp = "init" =>
        \E e \in observed :
            /\ specifier.text = Device(FormatAddress(transportAddress(e))).identifier
            /\ connects = 1
            /\ connectTarget = <<EndpointIp(e), EndpointPort(e)>>
            /\ host = EndpointIp(e)
            /\ port = EndpointPort(e)

C20_Witness ==
    /\ lastOp = "init"
    /\ specifier.text = <<"t", "c", "p", ":", "/", "/", "h", "1", ":", "9", "1", "0", "0">>
    /\ connectTarget = <<(<<"h", "1">>), 9100>>
    /\ connectResult = "ok"
    /\ obj = "instance"

====
